---- MODULE Spec2Model ----
(***************************************************************************)
(* Model of the GStreamer "vosk" element (src/src/gstvosk.c): the          *)
(* asynchronous, cancellable model loader, the element's state changes,    *)
(* the end-of-stream handler and the session fields they share.            *)
(*                                                                         *)
(* Threads: the application thread that drives state changes (it holds     *)
(* the element's state lock during a change), the streaming thread of the  *)
(* sink pad (it holds the pad's stream lock during a serialized event),    *)
(* and the threads of the GThreadPool created in gst_vosk_init.            *)
(***************************************************************************)
EXTENDS Integers, Sequences, FiniteSets

\* ------------------------------------------------------------------ bounds
\* Loads (cancellation tokens / thread-pool requests) created in one run.
MaxLoads == 2
\* End-of-stream events delivered in one run.
MaxEos == 1
\* OS threads the GThreadPool could use if its limit allowed it.
NumThreads == 2
\* Loads created in one run of the fair specification.
FairLoads == 1
\* Buffers handed to gst_vosk_apply_denoise in one run.
MaxChunks == 3
\* Buffers chained in one run, and in a run with the other threads.
MaxBufs == 2
SyncBufs == 1
\* Flush events and result-property reads in one run.
MaxFlush == 1
MaxReads == 1
\* Buffers, events and property reads in one run, all together.
MaxEvents == 3

\* --------------------------------------------------------------- constants
\* A NULL pointer (recognizer, current_operation, cancellable).
NULL == 0
\* GST_CLOCK_TIME_NONE, the "no value" timestamp.
GST_CLOCK_TIME_NONE == -1
\* max_threads argument of g_thread_pool_new.
max_threads == 1
\* RNNOISE_FRAME_SIZE: samples in one frame of the noise suppressor.
RNNOISE_FRAME_SIZE == 480
\* The only rate at which gst_vosk_apply_denoise works.
DenoiseRate == 48000
\* (GST_SECOND << 1) / 10 in milliseconds: the catch-up gap.
CatchUpGap == 200

\* One load more, for the runs that need three loads in flight.
DeepLoads == MaxLoads + 1

Ops == 1..DeepLoads
Workers == 1..NumThreads
\* model_path values: NULL or a path (DEFAULT_SPEECH_MODEL).
PathNull == "NULL"
Paths == {"/usr/share/vosk/model"}
\* Sample rates the sink caps can carry.
CapsRates == {16000}

Free == <<"free", 0>>
App == <<"app", 0>>
Stream == <<"stream", 0>>
Flush == <<"flush", 0>>
Prop == <<"prop", 0>>
Worker(w) == <<"worker", w>>

VARIABLES
  \* GstVosk fields
  recognizer,            \* NULL or the handle (named after the load that built it)
  rate,                  \* vosk->rate
  current_operation,     \* NULL or the pending load's GCancellable
  last_processed_time,
  last_partial,
  prev_partial,          \* the last partial result posted, or NoPartial
  model_path,
  thread_pool,           \* requests pushed and not yet taken by a pool thread
  \* GCancellable objects
  cancelled,             \* tokens whose cancelled flag is set
  \* mutexes
  RecMut, StateLock, StreamLock,
  \* pool threads
  wpc, wdata, wmodel,
  \* application thread inside gst_vosk_change_state
  apc, atrans, aop, aret,
  \* streaming thread inside gst_vosk_sink_event
  spc, n_eos,
  \* the host element: GST_STATE, GST_STATE_PENDING, GST_STATE_RETURN, pads, caps
  gst_state, gst_pending, gst_return, pad_active, caps_rate,
  \* observation of the run
  next_op,               \* tokens created so far
  bus,                   \* messages posted on the bus
  attempts,              \* vosk_model_new calls per load
  installs,              \* recognizer installations per load
  outcome,               \* how each load ended
  cancel_phase,          \* where a load was when cancel_model_loading hit its token
  undone,                \* loads followed by a deactivation
  \* noise suppression (gst_vosk_apply_denoise)
  enable_denoise, denoise_initialized,
  denoise_input_buffer,  \* the samples accumulated for the next frame
  denoise_output_buffer, \* the clean samples not yet written back
  dpc, dbuf,             \* the call in progress and the mapped buffer
  fed,                   \* samples received so far
  frames,                \* the frames handed to rnnoise_process_frame
  delivered,             \* the clean samples written back so far
  n_chunks,
  \* recognition on the streaming thread (gst_vosk_chain)
  partial_time_interval, \* in milliseconds
  decode,                \* the text the engine holds and has not given out
  cbuf, n_bufs,          \* the buffer being chained; buffers chained so far
  downstream,            \* what was pushed on the source pad, in order
  queried,               \* result queries made to the engine, and whether
                         \* gst_vosk_message_new was called with the answer
  \* the thread that sends a flush, the thread that reads a result property
  fpc, n_flush, ppc, n_reads

session == <<recognizer, rate, current_operation, last_processed_time,
             last_partial, prev_partial>>
host == <<gst_state, gst_pending, gst_return, pad_active, caps_rate>>
locks == <<RecMut, StateLock, StreamLock>>
pool == <<thread_pool, wpc, wdata, wmodel>>
appthread == <<apc, atrans, aop, aret>>
streamthread == <<spc, n_eos>>
history == <<next_op, bus, attempts, installs, outcome, cancel_phase, undone>>
denoise_state == <<enable_denoise, denoise_initialized, denoise_input_buffer,
                   denoise_output_buffer>>
denoise_call == <<dpc, dbuf, fed, frames, delivered, n_chunks>>
\* What the model loader and the state changes never touch.
\* The part of it that is not the denoise state itself.
chain == <<partial_time_interval, decode, cbuf, n_bufs, downstream, queried,
           fpc, n_flush, ppc, n_reads>>
audio_rest == <<denoise_call, chain>>
audio == <<denoise_state, audio_rest>>
vars == <<session, model_path, cancelled, host, locks, pool, appthread,
          streamthread, history, audio>>

NoRequest == [op |-> NULL, cancellable |-> NULL, path |-> PathNull]
\* vosk->prev_partial == NULL.
NoPartial == <<>>
\* accept_waveform has not been called on the buffer.
NotIngested == 2
NoBuffer == [id |-> 0, pts |-> 0, result |-> NotIngested, skipped |-> FALSE,
             mapped |-> FALSE]

Init ==
  /\ recognizer = NULL
  /\ rate = 0
  /\ current_operation = NULL
  /\ last_processed_time = 0
  /\ last_partial = 0
  /\ prev_partial = NoPartial
  /\ model_path = "/usr/share/vosk/model"
  /\ thread_pool = <<>>
  /\ cancelled = {}
  /\ RecMut = Free /\ StateLock = Free /\ StreamLock = Free
  /\ wpc = [w \in Workers |-> "idle"]
  /\ wdata = [w \in Workers |-> NoRequest]
  /\ wmodel = [w \in Workers |-> FALSE]
  /\ apc = "idle" /\ atrans = "none" /\ aop = NULL /\ aret = "SUCCESS"
  /\ spc = "idle" /\ n_eos = 0
  /\ gst_state = "READY" /\ gst_pending = "VOID" /\ gst_return = "SUCCESS"
  /\ pad_active = FALSE /\ caps_rate = 0
  /\ next_op = 0
  /\ bus = {}
  /\ attempts = [o \in Ops |-> 0]
  /\ installs = [o \in Ops |-> 0]
  /\ outcome = [o \in Ops |-> "none"]
  /\ cancel_phase = [o \in Ops |-> "none"]
  /\ undone = {}
  /\ enable_denoise = TRUE /\ denoise_initialized = FALSE
  /\ denoise_input_buffer = <<>> /\ denoise_output_buffer = <<>>
  /\ dpc = "idle" /\ dbuf = <<>>
  /\ fed = 0 /\ frames = <<>> /\ delivered = <<>> /\ n_chunks = 0
  /\ partial_time_interval = 0 /\ decode = ""
  /\ cbuf = NoBuffer /\ n_bufs = 0
  /\ downstream = <<>> /\ queried = <<>>
  /\ fpc = "idle" /\ n_flush = 0 /\ ppc = "idle" /\ n_reads = 0


\* ------------------------------------------------------------ GCancellable
\* g_cancellable_is_cancelled: FALSE for a NULL cancellable.
IsCancelled(c) == c \in cancelled

\* g_cancellable_cancel: a no-op on NULL.
CancelToken(set, c) == IF c = NULL THEN set ELSE set \cup {c}

\* Another buffer, event or property read fits in the run.
EventsLeft == n_bufs + n_eos + n_flush + n_reads < MaxEvents

\* ---------------------------------------------------------------- mutexes
\* GST_VOSK_LOCK can be taken: nobody holds RecMut.
GST_VOSK_LOCK_free == RecMut = Free

\* ------------------------------------------------- gst_vosk_cancel_model_loading
\* Where the load that carries token c is when its token gets cancelled.
PhaseOf(c) ==
  IF \E i \in 1..Len(thread_pool) : thread_pool[i].cancellable = c THEN "queued"
  ELSE IF \E w \in Workers : wpc[w] # "idle" /\ wdata[w].cancellable = c
                             /\ outcome[wdata[w].op] = "none" THEN "building"
  ELSE IF outcome[c] # "none" THEN "done"
  ELSE "unpushed"

\* Lock; cancel and drop vosk->current_operation if there is one; unlock.
gst_vosk_cancel_model_loading ==
  /\ GST_VOSK_LOCK_free
  /\ IF current_operation # NULL
       THEN /\ cancelled' = cancelled \cup {current_operation}
            /\ cancel_phase' = [cancel_phase EXCEPT
                                  ![current_operation] = PhaseOf(current_operation)]
            /\ current_operation' = NULL
       ELSE UNCHANGED <<cancelled, cancel_phase, current_operation>>

\* ---------------------------------------------------------- noise suppression
\* Sample counts of the buffers the streaming thread maps (info->size / 2).
ChunkSizes == {1, 160, 320, 479, 480, 640, 1440}

\* denoise_buffer_size: both buffers hold two frames (line 425).
denoise_buffer_size == RNNOISE_FRAME_SIZE * 2

Min(a, b) == IF a < b THEN a ELSE b

\* rnnoise_process_frame and the copy to the output buffer: sample n of the
\* input comes out as the clean sample n.
Clean(frame) == [i \in 1..Len(frame) |-> <<"clean", frame[i]>>]

\* gst_vosk_convert_float_to_s16: clamped and truncated to 16 bits.
ToS16(q) == [i \in 1..Len(q) |-> <<"s16", q[i][2]>>]

\* The zero sample written by the memset of line 531.
Silence == <<"s16", 0>>

\* A copy that takes the whole rest of the buffer at once.
ToCopyAll(pos, remaining) == remaining

\* to_copy (line 485): up to the end of the frame being accumulated.
ToCopy(pos, remaining) == Min(RNNOISE_FRAME_SIZE - pos, remaining)

\* An append that does not look at the room left.
AppendAlways(out, frame) == out \o Clean(frame)
\* An append that writes over the newest frame of a full queue.
OverwriteNewest(out, frame) ==
  IF Len(out) + RNNOISE_FRAME_SIZE <= denoise_buffer_size
    THEN out \o Clean(frame)
    ELSE SubSeq(out, 1, Len(out) - RNNOISE_FRAME_SIZE) \o Clean(frame)
\* Lines 498-506: the clean frame is appended to the output buffer if it
\* fits, and dropped otherwise.
AppendFrame(out, frame) ==
  IF Len(out) + RNNOISE_FRAME_SIZE <= denoise_buffer_size
    THEN out \o Clean(frame) ELSE out

\* The while loop of lines 484-510 over the samples not yet read: st is
\* [inb: the accumulator; out: the output buffer; log: the frames processed].
RECURSIVE Accumulate(_, _)
Accumulate(st, samples) ==
  IF samples = <<>> THEN st
  ELSE LET to_copy == ToCopy(Len(st.inb), Len(samples))
           inb == st.inb \o SubSeq(samples, 1, to_copy)
           rest == SubSeq(samples, to_copy + 1, Len(samples))
       IN IF Len(inb) = RNNOISE_FRAME_SIZE
            THEN Accumulate(
                   [inb |-> <<>>,
                    out |-> AppendFrame(st.out, inb),
                    log |-> Append(st.log, inb)],
                   rest)
            ELSE Accumulate([st EXCEPT !.inb = inb], rest)

\* A drain that leaves what it wrote in the output buffer.
NoShift(q, n) == q

\* The memmove of lines 520-525: the remainder moves to the front.
Shift(q, n) == SubSeq(q, n + 1, Len(q))

\* gst_vosk_init_denoise (lines 389-438), called with a known rate: fresh,
\* empty buffers unless the feature is off or already initialized.
gst_vosk_init_denoise ==
  IF ~enable_denoise \/ denoise_initialized
    THEN UNCHANGED <<denoise_initialized, denoise_input_buffer,
                     denoise_output_buffer>>
    ELSE /\ denoise_initialized' = TRUE
         /\ denoise_input_buffer' = <<>>
         /\ denoise_output_buffer' = <<>>

\* The denoise part of gst_vosk_reset (lines 332-343): the accumulator is
\* emptied, the output buffer is left as it is.
gst_vosk_reset_denoise ==
  /\ denoise_input_buffer' = <<>>
  /\ denoise_initialized' = FALSE
  /\ UNCHANGED <<enable_denoise, denoise_output_buffer>>

\* The denoise path is active: enabled, initialized, rate 48000.
DenoiseActive ==
  enable_denoise /\ denoise_initialized /\ rate = DenoiseRate

\* gst_vosk_apply_denoise, lines 467-510, on a mapped buffer of m samples:
\* nothing happens unless the feature is enabled, initialized and the rate is
\* 48000; otherwise the samples are accumulated and each full frame is
\* processed.
Denoise_Accumulate(m) ==
  /\ dpc = "idle"
  /\ n_chunks < MaxChunks
  /\ n_chunks' = n_chunks + 1
  /\ fed' = fed + m
  /\ dbuf' = [i \in 1..m |-> <<"raw", fed + i>>]
  /\ IF ~enable_denoise \/ ~denoise_initialized \/ rate # DenoiseRate
       THEN UNCHANGED <<denoise_input_buffer, denoise_output_buffer, frames,
                        dpc>>
       ELSE LET st == Accumulate([inb |-> denoise_input_buffer,
                                  out |-> denoise_output_buffer,
                                  log |-> frames],
                                 [i \in 1..m |-> fed + i])
            IN /\ denoise_input_buffer' = st.inb
               /\ denoise_output_buffer' = st.out
               /\ frames' = st.log
               /\ dpc' = "drain"
  /\ UNCHANGED <<enable_denoise, denoise_initialized, delivered>>
  /\ UNCHANGED <<session, model_path, cancelled, host, locks, pool, appthread,
                 streamthread, history, chain>>

\* Lines 512-534: the front of the output buffer is written over the mapped
\* buffer, the remainder is shifted down, the rest of the mapped buffer is
\* filled with silence.
Denoise_Drain ==
  /\ dpc = "drain"
  /\ LET samples_to_write == Min(Len(denoise_output_buffer), Len(dbuf))
         clean == SubSeq(denoise_output_buffer, 1, samples_to_write)
     IN /\ dbuf' = ToS16(clean)
                     \o [i \in 1..(Len(dbuf) - samples_to_write) |-> Silence]
        /\ denoise_output_buffer' = Shift(denoise_output_buffer,
                                          samples_to_write)
        /\ delivered' = delivered \o [i \in 1..samples_to_write |-> clean[i][2]]
  /\ dpc' = "idle"
  /\ UNCHANGED <<enable_denoise, denoise_initialized, denoise_input_buffer,
                 fed, frames, n_chunks>>
  /\ UNCHANGED <<session, model_path, cancelled, host, locks, pool, appthread,
                 streamthread, history, chain>>

\* The enable-denoise property is written (lines 802-806).
SetEnableDenoise(b) ==
  /\ enable_denoise' = b
  /\ denoise_initialized' = FALSE
  /\ enable_denoise # b \/ denoise_initialized
  /\ UNCHANGED <<denoise_input_buffer, denoise_output_buffer, denoise_call>>
  /\ UNCHANGED <<session, model_path, cancelled, host, locks, pool, appthread,
                 streamthread, history, chain>>

\* ------------------------------------------------------------ gst_vosk_reset
\* Frees the recognizer and the previous partial, resets the denoise state,
\* clears timing and rate.
gst_vosk_reset ==
  /\ recognizer' = NULL
  /\ prev_partial' = NoPartial
  /\ gst_vosk_reset_denoise
  /\ last_processed_time' = GST_CLOCK_TIME_NONE
  /\ rate' = 0

\* ------------------------------------------------------------------ the bus
Post(kind, op) == bus' = bus \cup {<<kind, op>>}

\* ------------------------------------------------------------- pool threads
\* A pool without a thread limit.
PoolSlotAlways == TRUE

\* The pool starts a request only while fewer than max_threads are running.
PoolSlotFree == Cardinality({w \in Workers : wpc[w] # "idle"}) < max_threads

\* A worker that does not look at the token before constructing.
NoFirstCheck(req) == FALSE

\* First check of the worker, before construction (line 585).
CancelledBeforeStart(req) == IsCancelled(req.cancellable)

\* A worker that does not look at the token after constructing.
NoSecondCheck(req) == FALSE

\* Second check of the worker, under the session lock (line 606).
CancelledAfterBuild(req) == IsCancelled(req.cancellable)

\* A pool that leaves a started request in its queue.
PoolKeep(q) == q

\* The queue after a pool thread has taken its head.
PoolTake(q) == Tail(q)

\* A pool thread takes the oldest request and runs gst_vosk_load_model_async
\* up to the call of vosk_model_new; a request cancelled while it waited
\* goes straight to the clean label.
W_Dequeue(w) ==
  /\ wpc[w] = "idle"
  /\ thread_pool # <<>>
  /\ PoolSlotFree
  /\ LET req == Head(thread_pool) IN
       /\ thread_pool' = PoolTake(thread_pool)
       /\ IF CancelledBeforeStart(req)
            THEN /\ outcome' = [outcome EXCEPT ![req.op] = "skipped"]
                 /\ cancelled' = CancelToken(cancelled, req.cancellable)
                 /\ UNCHANGED <<wpc, wdata, attempts>>
            ELSE /\ wpc' = [wpc EXCEPT ![w] = "vosk_model_new"]
                 /\ wdata' = [wdata EXCEPT ![w] = req]
                 /\ attempts' = [attempts EXCEPT ![req.op] = @ + 1]
                 /\ UNCHANGED <<outcome, cancelled>>
  /\ UNCHANGED <<session, model_path, host, locks, wmodel, appthread,
                 streamthread, next_op, bus, installs, cancel_phase,
                 undone>>
  /\ UNCHANGED audio

\* vosk_model_new returns (line 595): a model (m) or NULL, as the files at
\* the path decide.
W_ModelNew(w, m) ==
  /\ wpc[w] = "vosk_model_new"
  /\ wmodel' = [wmodel EXCEPT ![w] = m]
  /\ wpc' = [wpc EXCEPT ![w] = "lock"]
  /\ UNCHANGED <<session, model_path, cancelled, host, locks, thread_pool,
                 wdata, appthread, streamthread, history>>
  /\ UNCHANGED audio

\* GST_VOSK_LOCK, then the "point of no return": the session's token is
\* dropped whatever it is (lines 597-601).
W_Lock(w) ==
  /\ wpc[w] = "lock"
  /\ GST_VOSK_LOCK_free
  /\ RecMut' = Worker(w)
  /\ current_operation' = NULL
  /\ wpc' = [wpc EXCEPT ![w] = "locked"]
  /\ UNCHANGED <<recognizer, rate, last_processed_time, last_partial,
                 prev_partial, model_path, cancelled, host, StateLock,
                 StreamLock, thread_pool, wdata, wmodel, appthread,
                 streamthread, history>>
  /\ UNCHANGED audio

\* Worker exit through the clean label: cancel and drop the request's token.
W_Clean(w) ==
  /\ cancelled' = CancelToken(cancelled, wdata[w].cancellable)
  /\ wdata' = [wdata EXCEPT ![w] = NoRequest]
  /\ wmodel' = [wmodel EXCEPT ![w] = FALSE]
  /\ wpc' = [wpc EXCEPT ![w] = "idle"]

\* A worker that keeps the session lock when it leaves its locked section.
KeepSessionLock(w) == Worker(w)
\* GST_VOSK_UNLOCK at the end of the worker's locked section (lines 617 and
\* 642), before the state lock is asked for.
UnlockBeforeStateLock(w) == Free

\* Under the lock: cancelled -> unlock, free the model, leave; no model ->
\* unlock and go report; otherwise go on to create the recognizer
\* (lines 606-634).
W_Check(w) ==
  /\ wpc[w] = "locked"
  /\ RecMut = Worker(w)
  /\ IF CancelledAfterBuild(wdata[w])
       THEN /\ RecMut' = Free
            /\ outcome' = [outcome EXCEPT ![wdata[w].op] = "discarded"]
            /\ W_Clean(w)
       ELSE IF ~wmodel[w]
       THEN /\ RecMut' = UnlockBeforeStateLock(w)
            /\ outcome' = [outcome EXCEPT ![wdata[w].op] = "failed"]
            /\ wpc' = [wpc EXCEPT ![w] = "post_error"]
            /\ UNCHANGED <<cancelled, wdata, wmodel>>
       ELSE /\ wpc' = [wpc EXCEPT ![w] = "recognizer_new"]
            /\ UNCHANGED <<RecMut, outcome, cancelled, wdata, wmodel>>
  /\ UNCHANGED <<session, model_path, host, StateLock, StreamLock, thread_pool,
                 appthread, streamthread, next_op, bus, attempts,
                 installs, cancel_phase, undone>>
  /\ UNCHANGED audio

\* gst_vosk_recognizer_new, vosk_model_free, GST_VOSK_UNLOCK (lines 638-642):
\* the rate is read from the sink caps; without a rate no recognizer is
\* created, and the caller ignores the returned FALSE.
W_RecognizerNew(w) ==
  /\ wpc[w] = "recognizer_new"
  /\ RecMut = Worker(w)
  /\ rate' = caps_rate
  /\ IF caps_rate <= 0
       THEN UNCHANGED <<recognizer, installs, denoise_initialized,
                        denoise_input_buffer, denoise_output_buffer>>
       ELSE /\ gst_vosk_init_denoise
            /\ recognizer' = wdata[w].op
            /\ installs' = [installs EXCEPT ![wdata[w].op] = @ + 1]
  /\ outcome' = [outcome EXCEPT ![wdata[w].op] = "success"]
  /\ RecMut' = UnlockBeforeStateLock(w)
  /\ wpc' = [wpc EXCEPT ![w] = "post_done"]
  /\ UNCHANGED <<current_operation, last_processed_time, last_partial,
                 prev_partial, model_path, cancelled, host, StateLock,
                 StreamLock, thread_pool, wdata, wmodel, appthread,
                 streamthread, next_op, bus, attempts, cancel_phase,
                 undone>>
  /\ UNCHANGED <<enable_denoise, audio_rest>>

\* GST_ELEMENT_ERROR (RESOURCE, NOT_FOUND) (lines 620-625).
W_PostError(w) ==
  /\ wpc[w] = "post_error"
  /\ Post("error", wdata[w].op)
  /\ wpc' = [wpc EXCEPT ![w] = "abort_state"]
  /\ UNCHANGED <<session, model_path, cancelled, host, locks, thread_pool,
                 wdata, wmodel, appthread, streamthread, next_op, attempts,
                 installs, outcome, cancel_phase, undone>>
  /\ UNCHANGED audio

\* GST_STATE_LOCK; gst_element_abort_state; GST_STATE_UNLOCK; clean
\* (lines 627-631, 654-659).
W_AbortState(w) ==
  /\ wpc[w] = "abort_state"
  /\ StateLock = Free
  /\ gst_return' = IF gst_pending # "VOID" /\ gst_return # "FAILURE"
                     THEN "FAILURE" ELSE gst_return
  /\ W_Clean(w)
  /\ UNCHANGED <<session, model_path, gst_state, gst_pending, pad_active,
                 caps_rate, locks, thread_pool, appthread, streamthread,
                 history>>
  /\ UNCHANGED audio

\* gst_message_new_async_done posted (lines 645-647).
W_PostDone(w) ==
  /\ wpc[w] = "post_done"
  /\ Post("async-done", wdata[w].op)
  /\ wpc' = [wpc EXCEPT ![w] = "continue_state"]
  /\ UNCHANGED <<session, model_path, cancelled, host, locks, thread_pool,
                 wdata, wmodel, appthread, streamthread, next_op, attempts,
                 installs, outcome, cancel_phase, undone>>
  /\ UNCHANGED audio

\* GST_STATE_LOCK; gst_element_continue_state (SUCCESS); GST_STATE_UNLOCK;
\* clean (lines 650-659): a pending state change is committed.
W_ContinueState(w) ==
  /\ wpc[w] = "continue_state"
  /\ StateLock = Free
  /\ IF gst_pending # "VOID"
       THEN /\ gst_state' = "PAUSED"
            /\ gst_pending' = "VOID"
            /\ gst_return' = "SUCCESS"
       ELSE UNCHANGED <<gst_state, gst_pending, gst_return>>
  /\ W_Clean(w)
  /\ UNCHANGED <<session, model_path, pad_active, caps_rate, locks,
                 thread_pool, appthread, streamthread, history>>
  /\ UNCHANGED audio


\* ------------------------------------------ application thread: state changes
\* Loads whose token has been created.
Created == 1..next_op

\* An activation that does not test the model path.
ModelPathUnchecked == TRUE

\* vosk->model_path is set (line 669).
ModelPathSet == model_path # PathNull

\* gst_element_set_state clears the error of a failed previous change.
PendingAfterClear == IF gst_return = "FAILURE" THEN "VOID" ELSE gst_pending

\* gst_element_set_state (PAUSED): takes the state lock and calls
\* gst_vosk_change_state with READY_TO_PAUSED or PAUSED_TO_PAUSED.  While an
\* asynchronous change is pending the host only records the target.
SetStatePaused(limit) ==
  /\ apc = "idle"
  /\ StateLock = Free
  /\ PendingAfterClear = "VOID"
  /\ next_op < limit
  /\ StateLock' = App
  /\ atrans' = IF gst_state = "READY" THEN "READY_TO_PAUSED"
                                      ELSE "PAUSED_TO_PAUSED"
  /\ gst_pending' = "PAUSED"
  /\ gst_return' = IF gst_state = "READY" THEN "ASYNC" ELSE "SUCCESS"
  /\ apc' = "check_model_path"
  /\ UNCHANGED <<session, model_path, cancelled, gst_state, pad_active,
                 caps_rate, RecMut, StreamLock, pool, aop, aret, streamthread,
                 history>>
  /\ UNCHANGED audio

\* gst_element_set_state (READY): PAUSED_TO_READY when the element is in
\* PAUSED or on its way there, READY_TO_READY otherwise.
SetStateReady ==
  /\ apc = "idle"
  /\ StateLock = Free
  /\ StateLock' = App
  /\ atrans' = IF gst_state = "PAUSED" \/ PendingAfterClear = "PAUSED"
                 THEN "PAUSED_TO_READY" ELSE "READY_TO_READY"
  /\ gst_pending' = "READY"
  /\ gst_return' = "ASYNC"
  /\ aret' = "SUCCESS"
  /\ apc' = "parent"
  /\ UNCHANGED <<session, model_path, cancelled, gst_state, pad_active,
                 caps_rate, RecMut, StreamLock, pool, aop, streamthread,
                 history>>
  /\ UNCHANGED audio

\* gst_vosk_check_model_path without a model path (lines 669-676), and the
\* FAILURE return of gst_vosk_change_state (lines 715-716).
CheckModelPath_NoPath ==
  /\ apc = "check_model_path"
  /\ ~ModelPathSet
  /\ Post("error", NULL)
  /\ gst_return' = "FAILURE"
  /\ StateLock' = Free
  /\ apc' = "idle"
  /\ atrans' = "none"
  /\ aret' = "FAILURE"
  /\ UNCHANGED <<session, model_path, cancelled, gst_state, gst_pending,
                 pad_active, caps_rate, RecMut, StreamLock, pool, aop,
                 streamthread, next_op, attempts, installs, outcome,
                 cancel_phase, undone>>
  /\ UNCHANGED audio

\* gst_vosk_check_model_path under the session lock (lines 678-690): the
\* timing baseline is cleared; with a recognizer the change succeeds at once,
\* without one a new cancellable is stored in vosk->current_operation.
CheckModelPath_Locked ==
  /\ apc = "check_model_path"
  /\ ModelPathSet
  /\ GST_VOSK_LOCK_free
  /\ last_processed_time' = GST_CLOCK_TIME_NONE
  /\ IF recognizer # NULL
       THEN /\ aret' = "SUCCESS"
            /\ apc' = "parent"
            /\ UNCHANGED <<current_operation, next_op, aop>>
       ELSE /\ current_operation' = next_op + 1
            /\ next_op' = next_op + 1
            /\ aop' = next_op + 1
            /\ apc' = "push"
            /\ UNCHANGED aret
  /\ UNCHANGED <<recognizer, rate, last_partial, prev_partial, model_path,
                 cancelled, host, locks, pool, atrans, streamthread, bus,
                 attempts, installs, outcome, cancel_phase, undone>>
  /\ UNCHANGED audio

\* Lines 692-697, after the unlock: the request takes a reference on what it
\* reads in vosk->current_operation and is pushed to the pool.  The read is
\* not ordered with the writes made under the session lock: it sees the
\* field's present value (g_object_ref (NULL) is NULL) or, racing with a
\* writer, the pointer stored at line 688 (c).
CheckModelPath_Push(c) ==
  /\ apc = "push"
  /\ c \in {current_operation, aop}
  /\ thread_pool' = Append(thread_pool,
                           [op |-> aop, cancellable |-> c,
                            path |-> model_path])
  /\ apc' = "post_start"
  /\ UNCHANGED <<session, model_path, cancelled, host, locks, wpc, wdata,
                 wmodel, atrans, aop, aret, streamthread, history>>
  /\ UNCHANGED audio

\* Lines 699-701: async-start is posted and ASYNC returned.
CheckModelPath_PostStart ==
  /\ apc = "post_start"
  /\ Post("async-start", aop)
  /\ aret' = "ASYNC"
  /\ apc' = "parent"
  /\ UNCHANGED <<session, model_path, cancelled, host, locks, pool, atrans,
                 aop, streamthread, next_op, attempts, installs, outcome,
                 cancel_phase, undone>>
  /\ UNCHANGED audio

\* The parent class's change_state (line 723): READY_TO_PAUSED activates the
\* pads, PAUSED_TO_READY deactivates them (waiting for the streaming thread
\* to leave) and drops the caps.  An activation ends here: SUCCESS commits
\* the state, ASYNC leaves it pending.
ParentChangeState ==
  /\ apc = "parent"
  /\ atrans = "PAUSED_TO_READY" => StreamLock = Free
  /\ pad_active' = CASE atrans = "READY_TO_PAUSED" -> TRUE
                     [] atrans = "PAUSED_TO_READY" -> FALSE
                     [] OTHER -> pad_active
  /\ caps_rate' = IF atrans = "PAUSED_TO_READY" THEN 0 ELSE caps_rate
  /\ IF atrans \in {"READY_TO_PAUSED", "PAUSED_TO_PAUSED"}
       THEN /\ IF aret = "SUCCESS"
                 THEN /\ gst_state' = "PAUSED"
                      /\ gst_pending' = "VOID"
                      /\ gst_return' = "SUCCESS"
                 ELSE UNCHANGED <<gst_state, gst_pending, gst_return>>
            /\ StateLock' = Free
            /\ apc' = "idle"
            /\ atrans' = "none"
            /\ aop' = NULL
       ELSE /\ apc' = "cancel"
            /\ UNCHANGED <<gst_state, gst_pending, gst_return, StateLock,
                           atrans, aop>>
  /\ UNCHANGED <<session, model_path, cancelled, RecMut, StreamLock, pool,
                 aret, streamthread, history>>
  /\ UNCHANGED audio

\* Deactivation, line 731: gst_vosk_cancel_model_loading.
Deactivate_Cancel ==
  /\ apc = "cancel"
  /\ gst_vosk_cancel_model_loading
  /\ undone' = Created
  /\ apc' = "reset"
  /\ UNCHANGED <<recognizer, rate, last_processed_time, last_partial,
                 prev_partial, model_path, host, locks, pool, atrans, aop,
                 aret, streamthread, next_op, bus, attempts,
                 installs, outcome>>
  /\ UNCHANGED audio

\* Deactivation, lines 734-736: gst_vosk_reset under the stream lock; the
\* state change then completes with SUCCESS.
Deactivate_Reset ==
  /\ apc = "reset"
  /\ StreamLock = Free
  /\ gst_vosk_reset
  /\ gst_state' = "READY"
  /\ gst_pending' = "VOID"
  /\ gst_return' = "SUCCESS"
  /\ StateLock' = Free
  /\ apc' = "idle"
  /\ atrans' = "none"
  /\ UNCHANGED <<current_operation, last_partial, model_path, cancelled,
                 pad_active, caps_rate, RecMut, StreamLock, pool, aop, aret,
                 streamthread, history>>
  /\ UNCHANGED audio_rest

\* gst_vosk_set_model_path: only in the READY (or NULL) state, and only a
\* different path.
SetModelPath(p) ==
  /\ apc = "idle"
  /\ gst_state = "READY"
  /\ p # model_path
  /\ model_path' = p
  /\ UNCHANGED <<session, cancelled, host, locks, pool, appthread,
                 streamthread, history>>
  /\ UNCHANGED audio

\* ----------------------------------------------------------- streaming thread
\* A caps event on the active sink pad fixes the rate gst_vosk_get_rate
\* reads.
SetCaps(r) ==
  /\ pad_active
  /\ spc = "idle"
  /\ StreamLock = Free
  /\ caps_rate # r
  /\ caps_rate' = r
  /\ UNCHANGED <<session, model_path, cancelled, gst_state, gst_pending,
                 gst_return, pad_active, locks, pool, appthread, streamthread,
                 history>>
  /\ UNCHANGED audio

\* GST_EVENT_EOS arrives: a serialized event, delivered with the stream lock.
Eos_Start ==
  /\ pad_active
  /\ spc = "idle"
  /\ StreamLock = Free
  /\ n_eos < MaxEos
  /\ EventsLeft
  /\ StreamLock' = Stream
  /\ spc' = "eos_cancel"
  /\ n_eos' = n_eos + 1
  /\ UNCHANGED <<session, model_path, cancelled, host, RecMut, StateLock,
                 pool, appthread, history>>
  /\ UNCHANGED audio

\* Line 1007: gst_vosk_cancel_model_loading.
Eos_Cancel ==
  /\ spc = "eos_cancel"
  /\ gst_vosk_cancel_model_loading
  /\ spc' = "eos_final"
  /\ UNCHANGED <<recognizer, rate, last_processed_time, last_partial,
                 prev_partial, model_path, host, locks, pool, appthread,
                 n_eos, next_op, bus, attempts, installs, outcome,
                 undone>>
  /\ UNCHANGED audio

\* ------------------------------------------------------------- the engine
\* Texts the engine can hold as its pending decode state.
Texts == {"", "a", "b"}

\* The three spellings of an empty answer (lines 78-80).
VOSK_EMPTY_PARTIAL_RESULT == <<"partial", "">>
VOSK_EMPTY_TEXT_RESULT == <<"text", "">>
VOSK_EMPTY_TEXT_RESULT_ALT == <<"text-compact", "">>

\* What vosk_recognizer_result and vosk_recognizer_final_result can answer
\* when the engine holds text d, and what vosk_recognizer_partial_result
\* can; alt picks the spelling of an empty answer.
TextJson(d, alt) ==
  IF d # "" THEN <<"text", d>>
  ELSE IF alt THEN VOSK_EMPTY_TEXT_RESULT_ALT ELSE VOSK_EMPTY_TEXT_RESULT

PartialJson(d, alt) ==
  IF d # "" THEN <<"partial", d>>
  ELSE IF alt THEN VOSK_EMPTY_TEXT_RESULT_ALT ELSE VOSK_EMPTY_PARTIAL_RESULT

\* The filters of gst_vosk_final_result (lines 854-857), gst_vosk_result
\* (line 884) and gst_vosk_partial_result (lines 1046-1049).
FinalIsEmpty(json) ==
  json \in {VOSK_EMPTY_TEXT_RESULT, VOSK_EMPTY_TEXT_RESULT_ALT}
ResultIsEmpty(json) == json = VOSK_EMPTY_TEXT_RESULT
PartialIsEmpty(json) ==
  json \in {VOSK_EMPTY_PARTIAL_RESULT, VOSK_EMPTY_TEXT_RESULT_ALT}

\* One query: its kind, who made it (a buffer's number, SrcEos or SrcProp),
\* the buffer's timestamp, the answer, and whether gst_vosk_message_new was
\* called with it.
SrcEos == 0
SrcProp == -1
Query(kind, src, pts, json, out) ==
  [kind |-> kind, src |-> src, pts |-> pts, json |-> json, emitted |-> out]

\* Another thread is inside a call on the recognizer.
EngineBusy == ppc # "idle" \/ fpc = "locked"

\* Lines 1010-1012: gst_vosk_final_result_msg, without the session lock.
\* With a recognizer the engine's text is taken, the previous partial is
\* dropped and a non-empty answer is emitted.  While another thread is inside
\* a call on the same recognizer the engine's answer is not determined: it
\* is the pending text, or an empty answer with the text left to the other
\* caller.
Eos_Final(txt, alt) ==
  /\ spc = "eos_final"
  /\ txt \in (IF EngineBusy THEN {decode, ""} ELSE {decode})
  /\ IF recognizer = NULL
       THEN UNCHANGED <<prev_partial, decode, queried>>
       ELSE LET json == TextJson(txt, alt)
            IN /\ prev_partial' = NoPartial
               /\ decode' = IF txt = decode THEN "" ELSE decode
               /\ queried' = Append(queried,
                                    Query("final", SrcEos, cbuf.pts, json,
                                          ~FinalIsEmpty(json)))
  /\ spc' = "eos_forward"
  /\ UNCHANGED <<recognizer, rate, current_operation, last_processed_time,
                 last_partial, model_path, cancelled, host, locks,
                 pool, appthread, n_eos, history>>
  /\ UNCHANGED <<denoise_state, denoise_call>>
  /\ UNCHANGED <<partial_time_interval, cbuf, n_bufs, downstream, fpc,
                 n_flush, ppc, n_reads>>

\* Line 1021: gst_pad_event_default forwards the event; the core then
\* releases the stream lock.
Eos_Forward ==
  /\ spc = "eos_forward"
  /\ downstream' = Append(downstream, <<"event", "eos">>)
  /\ StreamLock' = Free
  /\ spc' = "idle"
  /\ UNCHANGED <<session, model_path, cancelled, host, RecMut, StateLock,
                 pool, appthread, n_eos, history>>
  /\ UNCHANGED <<denoise_state, denoise_call>>
  /\ UNCHANGED <<partial_time_interval, decode, cbuf, n_bufs, queried, fpc,
                 n_flush, ppc, n_reads>>

\* ------------------------------------------------------------ gst_vosk_chain
\* Timestamp steps between buffers, in milliseconds.
PtsSteps == {100, 300}
\* Samples in a chained buffer.
ChainSamples == RNNOISE_FRAME_SIZE
\* gst_buffer_map: the buffer maps, fails to map, or maps with size 0.
MapOutcomes == {"ok", "failed", "empty"}
\* Return values of vosk_recognizer_accept_waveform.
AcceptResults == {-1, 0, 1}

FrameStream == <<partial_time_interval, decode, downstream, queried, fpc,
                 n_flush, ppc, n_reads>>

\* The chain function is entered with a buffer; the core holds the stream
\* lock for the whole call.
Chain_Start(limit, step) ==
  /\ pad_active
  /\ spc = "idle"
  /\ StreamLock = Free
  /\ n_bufs < limit
  /\ EventsLeft
  /\ StreamLock' = Stream
  /\ n_bufs' = n_bufs + 1
  /\ cbuf' = [id |-> n_bufs + 1,
              pts |-> cbuf.pts + step,
              result |-> NotIngested, skipped |-> FALSE, mapped |-> FALSE]
  /\ spc' = "chain_lock"
  /\ UNCHANGED <<session, model_path, cancelled, host, RecMut, StateLock,
                 pool, appthread, n_eos, history>>
  /\ UNCHANGED <<denoise_state, denoise_call, FrameStream>>

\* Line 1161: GST_VOSK_LOCK.
Chain_Lock ==
  /\ spc = "chain_lock"
  /\ GST_VOSK_LOCK_free
  /\ RecMut' = Stream
  /\ spc' = "chain_handle"
  /\ UNCHANGED <<session, model_path, cancelled, host, StateLock, StreamLock,
                 pool, appthread, n_eos, history>>
  /\ UNCHANGED <<denoise_state, denoise_call, FrameStream, cbuf, n_bufs>>

\* A chain function that takes every ingest as a plain one.
NeverBoundary(r) == FALSE
\* Line 1131: the engine reported a final boundary.
IsBoundary(r) == r = 1

\* A chain function that ignores the sign of the interval.
PartialNeverDisabled(i) == FALSE
\* Line 1138: partial results are disabled.
PartialDisabled(i) == i < 0

\* A chain function that asks for a partial result on every buffer.
IntervalAlways(i, diff) == TRUE
\* Line 1141: the interval has passed since the last partial.
IntervalPassed(i, diff) == i < diff

\* gst_vosk_handle_buffer (lines 1062-1150) on the buffer cbuf, with
\* last_processed_time already set to lpt0: the values of the session's
\* fields, the engine's text and the queries made when it returns.  m is the
\* outcome of the map, r the return of accept_waveform, late says that the
\* running time is more than GST_SECOND / 2 past the timestamp, d is the text
\* the engine holds after the ingest.  mapped says that the function returned
\* without gst_buffer_unmap on a buffer it had mapped (the build with
\* HAVE_RNNOISE: only the end of the function, line 1148, and the empty
\* buffer, line 1083, unmap).
gst_vosk_handle_buffer(lpt0, m, r, late, d, alt) ==
  LET pts == cbuf.pts
      base == [lpt |-> lpt0, lp |-> last_partial, pp |-> prev_partial,
               dec |-> decode, qs |-> <<>>, result |-> NotIngested,
               skipped |-> FALSE, mapped |-> FALSE]
  IN IF m # "ok" THEN base
     ELSE IF r = -1 THEN [base EXCEPT !.result = r, !.mapped = TRUE]
     ELSE IF late /\ pts - lpt0 < CatchUpGap
       THEN [base EXCEPT !.result = r, !.dec = d, !.skipped = TRUE,
                         !.mapped = TRUE]
     ELSE IF IsBoundary(r)
       THEN LET json == TextJson(d, alt)
            IN [lpt |-> pts, lp |-> pts, pp |-> NoPartial, dec |-> "",
                qs |-> <<Query("result", cbuf.id, pts, json,
                               ~ResultIsEmpty(json))>>,
                result |-> r, skipped |-> FALSE, mapped |-> TRUE]
     ELSE IF PartialDisabled(partial_time_interval)
       THEN [base EXCEPT !.lpt = pts, !.result = r, !.dec = d,
                         !.mapped = TRUE]
     ELSE IF IntervalPassed(partial_time_interval, pts - last_partial)
       THEN LET json == PartialJson(d, alt)
                out == ~PartialIsEmpty(json) /\ json # prev_partial
            IN [lpt |-> pts, lp |-> pts,
                pp |-> IF out THEN json ELSE prev_partial, dec |-> d,
                qs |-> <<Query("partial", cbuf.id, pts, json, out)>>,
                result |-> r, skipped |-> FALSE, mapped |-> FALSE]
     ELSE [base EXCEPT !.lpt = pts, !.result = r, !.dec = d]

\* gst_vosk_apply_denoise on the mapped buffer of n samples, accumulation and
\* drain in one go.
gst_vosk_apply_denoise(n) ==
  IF ~DenoiseActive
    THEN UNCHANGED <<denoise_input_buffer, denoise_output_buffer>>
    ELSE LET st == Accumulate([inb |-> denoise_input_buffer,
                               out |-> denoise_output_buffer,
                               log |-> <<>>],
                              [i \in 1..n |-> i])
             samples_to_write == Min(Len(st.out), n)
         IN /\ denoise_input_buffer' = st.inb
            /\ denoise_output_buffer' = Shift(st.out, samples_to_write)

\* A chain function that does not record the first timestamp.
NoBaseline(lpt, pts) == lpt
\* Lines 1164-1165 and 1176-1177: the first timestamp after a reset becomes
\* last_processed_time.
Baseline(lpt, pts) == IF lpt = GST_CLOCK_TIME_NONE THEN pts ELSE lpt

\* Lines 1163-1184 under the session lock: with a recognizer the first
\* timestamp is recorded and the buffer is handled; without one only the
\* first timestamp is recorded.  Then GST_VOSK_UNLOCK.
Chain_Handle(m, r, late, d, alt) ==
  /\ spc = "chain_handle"
  /\ LET lpt0 == Baseline(last_processed_time, cbuf.pts)
     IN IF recognizer = NULL
          THEN /\ last_processed_time' = lpt0
               /\ UNCHANGED <<last_partial, prev_partial, decode, queried,
                              cbuf, denoise_input_buffer,
                              denoise_output_buffer>>
          ELSE LET h == gst_vosk_handle_buffer(lpt0, m, r, late, d, alt)
               IN /\ last_processed_time' = h.lpt
                  /\ last_partial' = h.lp
                  /\ prev_partial' = h.pp
                  /\ decode' = h.dec
                  /\ queried' = queried \o h.qs
                  /\ cbuf' = [cbuf EXCEPT !.result = h.result,
                                          !.skipped = h.skipped,
                                          !.mapped = h.mapped]
                  /\ IF m = "ok"
                       THEN gst_vosk_apply_denoise(ChainSamples)
                       ELSE UNCHANGED <<denoise_input_buffer,
                                        denoise_output_buffer>>
  /\ RecMut' = Free
  /\ spc' = "chain_push"
  /\ UNCHANGED <<recognizer, rate, current_operation, model_path, cancelled,
                 host, StateLock, StreamLock, pool, appthread, n_eos,
                 history>>
  /\ UNCHANGED <<enable_denoise, denoise_initialized, denoise_call>>
  /\ UNCHANGED <<partial_time_interval, n_bufs, downstream, fpc, n_flush,
                 ppc, n_reads>>

\* A push that leaves out the buffers the engine never took.
PushIfIngested(ds, buf) ==
  IF buf.result = NotIngested THEN ds ELSE Append(ds, <<"buffer", buf.id>>)
\* gst_pad_push on the source pad.
gst_pad_push(ds, buf) == Append(ds, <<"buffer", buf.id>>)

\* Lines 1187-1188: the buffer is pushed on the source pad and the call
\* returns; what the call knew about the ingest is gone with it.
Chain_Push ==
  /\ spc = "chain_push"
  /\ downstream' = gst_pad_push(downstream, cbuf)
  /\ cbuf' = [cbuf EXCEPT !.result = NotIngested, !.skipped = FALSE,
                          !.mapped = FALSE]
  /\ StreamLock' = Free
  /\ spc' = "idle"
  /\ UNCHANGED <<session, model_path, cancelled, host, RecMut, StateLock,
                 pool, appthread, n_eos, history>>
  /\ UNCHANGED <<denoise_state, denoise_call>>
  /\ UNCHANGED <<partial_time_interval, decode, n_bufs, queried, fpc,
                 n_flush, ppc, n_reads>>

\* ------------------------------------------------------------ gst_vosk_flush
\* A flush that does not wait for the session lock.
FlushLockAlways == TRUE
\* Line 978: GST_VOSK_LOCK can be taken.
FlushLockFree == GST_VOSK_LOCK_free

\* GST_EVENT_FLUSH_START arrives on the active sink pad, on the thread that
\* flushes; it is not serialized with the data flow.  Line 978.
Flush_Lock ==
  /\ pad_active
  /\ fpc = "idle"
  /\ n_flush < MaxFlush
  /\ EventsLeft
  /\ FlushLockFree
  /\ RecMut' = Flush
  /\ n_flush' = n_flush + 1
  /\ fpc' = "locked"
  /\ UNCHANGED <<session, model_path, cancelled, host, StateLock, StreamLock,
                 pool, appthread, streamthread, history>>
  /\ UNCHANGED <<denoise_state, denoise_call>>
  /\ UNCHANGED <<partial_time_interval, decode, cbuf, n_bufs, downstream,
                 queried, ppc, n_reads>>

\* An engine reset that loses the recognizer.
RecognizerDropped(h) == NULL
\* vosk_recognizer_reset leaves the handle what it is.
vosk_recognizer_reset(h) == h

\* Lines 980-985 and 1021: vosk_recognizer_reset if there is a recognizer,
\* unlock, and the event is forwarded.
Flush_Reset ==
  /\ fpc = "locked"
  /\ IF recognizer # NULL
       THEN /\ recognizer' = vosk_recognizer_reset(recognizer)
            /\ decode' = ""
       ELSE UNCHANGED <<recognizer, decode>>
  /\ RecMut' = Free
  /\ downstream' = Append(downstream, <<"event", "flush-start">>)
  /\ fpc' = "idle"
  /\ UNCHANGED <<rate, current_operation, last_processed_time, last_partial,
                 prev_partial, model_path, cancelled, host, StateLock,
                 StreamLock, pool, appthread, streamthread, history>>
  /\ UNCHANGED <<denoise_state, denoise_call>>
  /\ UNCHANGED <<partial_time_interval, cbuf, n_bufs, queried, n_flush, ppc,
                 n_reads>>

\* ------------------------------------------------------- gst_vosk_get_property
\* The two properties that query the engine.
ResultProps == {"current-final-results", "current-results"}

\* Lines 916 and 922: GST_VOSK_LOCK on the thread that reads the property.
Prop_Lock(prop) ==
  /\ ppc = "idle"
  /\ n_reads < MaxReads
  /\ EventsLeft
  /\ GST_VOSK_LOCK_free
  /\ RecMut' = Prop
  /\ n_reads' = n_reads + 1
  /\ ppc' = prop
  /\ UNCHANGED <<session, model_path, cancelled, host, StateLock, StreamLock,
                 pool, appthread, streamthread, history>>
  /\ UNCHANGED <<denoise_state, denoise_call>>
  /\ UNCHANGED <<partial_time_interval, decode, cbuf, n_bufs, downstream,
                 queried, fpc, n_flush>>

\* Lines 917-918 and 923-924: gst_vosk_final_result or gst_vosk_result; the
\* answer goes to the caller, not to gst_vosk_message_new.
Prop_Query(alt) ==
  /\ ppc # "idle"
  /\ IF recognizer = NULL
       THEN UNCHANGED <<prev_partial, decode, queried>>
       ELSE /\ prev_partial' = NoPartial
            /\ decode' = ""
            /\ queried' = Append(queried,
                                 Query(IF ppc = "current-results"
                                         THEN "result" ELSE "final",
                                       SrcProp, cbuf.pts,
                                       TextJson(decode, alt), FALSE))
  /\ RecMut' = Free
  /\ ppc' = "idle"
  /\ UNCHANGED <<recognizer, rate, current_operation, last_processed_time,
                 last_partial, model_path, cancelled, host, StateLock,
                 StreamLock, pool, appthread, streamthread, history>>
  /\ UNCHANGED <<denoise_state, denoise_call>>
  /\ UNCHANGED <<partial_time_interval, cbuf, n_bufs, downstream, fpc,
                 n_flush, n_reads>>

\* ------------------------------------------------------------ specification
\* The steps of one pool thread.
WorkerStep(w) ==
  \/ W_Dequeue(w)
  \/ \E m \in BOOLEAN : W_ModelNew(w, m)
  \/ W_Lock(w)
  \/ W_Check(w)
  \/ W_RecognizerNew(w)
  \/ W_PostError(w)
  \/ W_AbortState(w)
  \/ W_PostDone(w)
  \/ W_ContinueState(w)

WorkerNext == \E w \in Workers : WorkerStep(w)

AppNext(limit) ==
  \/ SetStatePaused(limit)
  \/ SetStateReady
  \/ CheckModelPath_NoPath
  \/ CheckModelPath_Locked
  \/ \E c \in Ops \cup {NULL} : CheckModelPath_Push(c)
  \/ CheckModelPath_PostStart
  \/ ParentChangeState
  \/ Deactivate_Cancel
  \/ Deactivate_Reset
  \/ \E p \in Paths \cup {PathNull} : SetModelPath(p)

StreamNext ==
  \/ \E r \in CapsRates : SetCaps(r)
  \/ Eos_Start
  \/ Eos_Cancel
  \/ \E txt \in Texts, alt \in BOOLEAN : Eos_Final(txt, alt)
  \/ Eos_Forward

Next == WorkerNext \/ AppNext(MaxLoads) \/ StreamNext

Spec == Init /\ [][Next]_vars

\* A call of gst_vosk_change_state in progress, and an end-of-stream event
\* being handled: threads that are inside the element's code.
AppProgress ==
  \/ CheckModelPath_NoPath
  \/ CheckModelPath_Locked
  \/ \E c \in Ops \cup {NULL} : CheckModelPath_Push(c)
  \/ CheckModelPath_PostStart
  \/ ParentChangeState
  \/ Deactivate_Cancel
  \/ Deactivate_Reset

StreamProgress ==
  \/ Eos_Cancel
  \/ \E txt \in Texts, alt \in BOOLEAN : Eos_Final(txt, alt)
  \/ Eos_Forward

NextFair == WorkerNext \/ AppNext(FairLoads) \/ StreamNext

\* Every thread that is inside the element's code keeps running: a
\* construction returns, and a thread waiting for a mutex that is free again
\* and again eventually gets it.  Nothing is assumed about when the host asks
\* for state changes or sends events.
FairSpec ==
  /\ Init /\ [][NextFair]_vars
  /\ SF_vars(WorkerNext)
  /\ SF_vars(AppProgress)
  /\ SF_vars(StreamProgress)

\* The same program, followed through one more load.
NextDeep == WorkerNext \/ AppNext(DeepLoads) \/ StreamNext

SpecDeep == Init /\ [][NextDeep]_vars

\* ------------------------------------------------- noise suppression alone
\* The session after a load at 48000 Hz: recognizer installed, denoise
\* initialized with empty buffers, element in PAUSED with active pads.
InitDenoise ==
  /\ recognizer = 1 /\ rate = DenoiseRate
  /\ current_operation = NULL
  /\ last_processed_time = GST_CLOCK_TIME_NONE
  /\ last_partial = 0 /\ prev_partial = NoPartial
  /\ model_path = "/usr/share/vosk/model"
  /\ thread_pool = <<>> /\ cancelled = {1}
  /\ RecMut = Free /\ StateLock = Free /\ StreamLock = Free
  /\ wpc = [w \in Workers |-> "idle"]
  /\ wdata = [w \in Workers |-> NoRequest]
  /\ wmodel = [w \in Workers |-> FALSE]
  /\ apc = "idle" /\ atrans = "none" /\ aop = NULL /\ aret = "ASYNC"
  /\ spc = "idle" /\ n_eos = 0
  /\ gst_state = "PAUSED" /\ gst_pending = "VOID" /\ gst_return = "SUCCESS"
  /\ pad_active = TRUE /\ caps_rate = DenoiseRate
  /\ next_op = 1
  /\ bus = {<<"async-start", 1>>, <<"async-done", 1>>}
  /\ attempts = [o \in Ops |-> IF o = 1 THEN 1 ELSE 0]
  /\ installs = [o \in Ops |-> IF o = 1 THEN 1 ELSE 0]
  /\ outcome = [o \in Ops |-> IF o = 1 THEN "success" ELSE "none"]
  /\ cancel_phase = [o \in Ops |-> "none"]
  /\ undone = {}
  /\ enable_denoise = TRUE /\ denoise_initialized = TRUE
  /\ denoise_input_buffer = <<>> /\ denoise_output_buffer = <<>>
  /\ dpc = "idle" /\ dbuf = <<>>
  /\ fed = 0 /\ frames = <<>> /\ delivered = <<>> /\ n_chunks = 0
  /\ partial_time_interval = 0 /\ decode = ""
  /\ cbuf = NoBuffer /\ n_bufs = 0
  /\ downstream = <<>> /\ queried = <<>>
  /\ fpc = "idle" /\ n_flush = 0 /\ ppc = "idle" /\ n_reads = 0

NextDenoise ==
  \/ \E m \in ChunkSizes : Denoise_Accumulate(m)
  \/ Denoise_Drain
  \/ \E b \in BOOLEAN : SetEnableDenoise(b)

SpecDenoise == InitDenoise /\ [][NextDenoise]_vars

\* ------------------------------------------------------------ the data flow
\* Values of the partial-results-interval property, in milliseconds.
Intervals == {-1, 0, 200}

\* The session while its first load is queued: the activation has returned
\* ASYNC, the pads are active and the caps are set.  The interval property
\* was set before.
InitStream ==
  /\ recognizer = NULL /\ rate = 0
  /\ current_operation = 1
  /\ last_processed_time = GST_CLOCK_TIME_NONE
  /\ last_partial = 0 /\ prev_partial = NoPartial
  /\ model_path = "/usr/share/vosk/model"
  /\ thread_pool = <<[op |-> 1, cancellable |-> 1,
                      path |-> "/usr/share/vosk/model"]>>
  /\ cancelled = {}
  /\ RecMut = Free /\ StateLock = Free /\ StreamLock = Free
  /\ wpc = [w \in Workers |-> "idle"]
  /\ wdata = [w \in Workers |-> NoRequest]
  /\ wmodel = [w \in Workers |-> FALSE]
  /\ apc = "idle" /\ atrans = "none" /\ aop = NULL /\ aret = "ASYNC"
  /\ spc = "idle" /\ n_eos = 0
  /\ gst_state = "READY" /\ gst_pending = "PAUSED" /\ gst_return = "ASYNC"
  /\ pad_active = TRUE /\ caps_rate = 16000
  /\ next_op = 1
  /\ bus = {<<"async-start", 1>>}
  /\ attempts = [o \in Ops |-> 0]
  /\ installs = [o \in Ops |-> 0]
  /\ outcome = [o \in Ops |-> "none"]
  /\ cancel_phase = [o \in Ops |-> "none"]
  /\ undone = {}
  /\ enable_denoise = TRUE /\ denoise_initialized = FALSE
  /\ denoise_input_buffer = <<>> /\ denoise_output_buffer = <<>>
  /\ dpc = "idle" /\ dbuf = <<>>
  /\ fed = 0 /\ frames = <<>> /\ delivered = <<>> /\ n_chunks = 0
  /\ partial_time_interval \in Intervals /\ decode = ""
  /\ cbuf = NoBuffer /\ n_bufs = 0
  /\ downstream = <<>> /\ queried = <<>>
  /\ fpc = "idle" /\ n_flush = 0 /\ ppc = "idle" /\ n_reads = 0

ChainNext ==
  \/ \E step \in PtsSteps : Chain_Start(MaxBufs, step)
  \/ Chain_Lock
  \/ \E m \in MapOutcomes, r \in AcceptResults, late \in BOOLEAN,
        d \in Texts, alt \in BOOLEAN : Chain_Handle(m, r, late, d, alt)
  \/ Chain_Push

EosNext ==
  \/ Eos_Start
  \/ Eos_Cancel
  \/ \E txt \in Texts, alt \in BOOLEAN : Eos_Final(txt, alt)
  \/ Eos_Forward

OtherNext ==
  \/ Flush_Lock
  \/ Flush_Reset
  \/ \E prop \in ResultProps : Prop_Lock(prop)
  \/ \E alt \in BOOLEAN : Prop_Query(alt)

DeactivateNext ==
  \/ SetStateReady
  \/ ParentChangeState
  \/ Deactivate_Cancel
  \/ Deactivate_Reset

NextStream == WorkerNext \/ ChainNext

SpecStream == InitStream /\ [][NextStream]_vars

\* -------------------------------------------- the streaming session's threads
\* The session in Ready: the first load has installed its recognizer at
\* 16000 Hz, the element is in PAUSED, nothing was chained yet.
InitReady ==
  /\ recognizer = 1 /\ rate = 16000
  /\ current_operation = NULL
  /\ last_processed_time = GST_CLOCK_TIME_NONE
  /\ last_partial = 0 /\ prev_partial = NoPartial
  /\ model_path = "/usr/share/vosk/model"
  /\ thread_pool = <<>> /\ cancelled = {1}
  /\ RecMut = Free /\ StateLock = Free /\ StreamLock = Free
  /\ wpc = [w \in Workers |-> "idle"]
  /\ wdata = [w \in Workers |-> NoRequest]
  /\ wmodel = [w \in Workers |-> FALSE]
  /\ apc = "idle" /\ atrans = "none" /\ aop = NULL /\ aret = "ASYNC"
  /\ spc = "idle" /\ n_eos = 0
  /\ gst_state = "PAUSED" /\ gst_pending = "VOID" /\ gst_return = "SUCCESS"
  /\ pad_active = TRUE /\ caps_rate = 16000
  /\ next_op = 1
  /\ bus = {<<"async-start", 1>>, <<"async-done", 1>>}
  /\ attempts = [o \in Ops |-> IF o = 1 THEN 1 ELSE 0]
  /\ installs = [o \in Ops |-> IF o = 1 THEN 1 ELSE 0]
  /\ outcome = [o \in Ops |-> IF o = 1 THEN "success" ELSE "none"]
  /\ cancel_phase = [o \in Ops |-> "none"]
  /\ undone = {}
  /\ enable_denoise = TRUE /\ denoise_initialized = TRUE
  /\ denoise_input_buffer = <<>> /\ denoise_output_buffer = <<>>
  /\ dpc = "idle" /\ dbuf = <<>>
  /\ fed = 0 /\ frames = <<>> /\ delivered = <<>> /\ n_chunks = 0
  /\ partial_time_interval = 0 /\ decode = ""
  /\ cbuf = NoBuffer /\ n_bufs = 0
  /\ downstream = <<>> /\ queried = <<>>
  /\ fpc = "idle" /\ n_flush = 0 /\ ppc = "idle" /\ n_reads = 0

\* The chain function on buffers that map and that the engine takes, leaving
\* it with the text "a".
ChainSync ==
  \/ Chain_Start(SyncBufs, 100)
  \/ Chain_Lock
  \/ \E r \in {0, 1}, late \in BOOLEAN : Chain_Handle("ok", r, late, "a", FALSE)
  \/ Chain_Push

NextSync == ChainSync \/ EosNext \/ OtherNext \/ DeactivateNext

SpecSync == InitReady /\ [][NextSync]_vars

\* ---------------------------------------------------- the cadence of queries
\* Timestamp steps that put a buffer below, at and above the catch-up gap.
CadenceSteps == {100, 200, 300}

\* The partial-results-interval property is written (lines 816-818), with
\* no lock.
SetPartialInterval(i) ==
  /\ i # partial_time_interval
  /\ partial_time_interval' = i
  /\ UNCHANGED <<session, model_path, cancelled, host, locks, pool, appthread,
                 streamthread, history>>
  /\ UNCHANGED <<denoise_state, denoise_call>>
  /\ UNCHANGED <<decode, cbuf, n_bufs, downstream, queried, fpc, n_flush,
                 ppc, n_reads>>

ChainCadence ==
  \/ \E step \in CadenceSteps : Chain_Start(MaxBufs, step)
  \/ Chain_Lock
  \/ \E m \in MapOutcomes, r \in AcceptResults, late \in BOOLEAN,
        d \in Texts, alt \in BOOLEAN : Chain_Handle(m, r, late, d, alt)
  \/ Chain_Push

NextCadence ==
  \/ ChainCadence
  \/ Flush_Lock
  \/ Flush_Reset
  \/ \E i \in Intervals : SetPartialInterval(i)

\* The Ready session with buffers, flushes and writes of the interval.
SpecCadence == InitReady /\ [][NextCadence]_vars

\* -------------------------------------------------------------------- claims
Started(op) == <<"async-start", op>> \in bus
Completed(op) == <<"async-done", op>> \in bus
Failed(op) == <<"error", op>> \in bus
Running == {w \in Workers : wpc[w] # "idle"}
Pushed(op) ==
  \/ \E i \in 1..Len(thread_pool) : thread_pool[i].op = op
  \/ \E w \in Workers : wdata[w].op = op
  \/ outcome[op] # "none"
\* Loads created, not cancelled and not yet completed.
Live == {op \in Created : cancel_phase[op] = "none" /\ outcome[op] = "none"}

\* C1: at most one pool thread is inside gst_vosk_load_model_async (and so at
\* most one vosk_model_new is executing) at any moment; a request pushed
\* meanwhile stays in the queue until that thread has left.
C1_OneConstruction == Cardinality(Running) <= 1

\* C1 witness: a construction is running while a second request waits.
C1_Witness ==
  \E w \in Workers : wpc[w] = "vosk_model_new" /\ thread_pool # <<>>

C3_CancelledWhileQueued ==
  [][(/\ thread_pool # <<>>
      /\ IsCancelled(Head(thread_pool).cancellable)
      /\ thread_pool' = Tail(thread_pool))
     => (/\ wpc' = wpc
         /\ attempts' = attempts
         /\ installs' = installs
         /\ bus' = bus
         /\ UNCHANGED session
         /\ UNCHANGED host
         /\ outcome'[Head(thread_pool).op] = "skipped")]_vars

\* C3 witness: a load cancelled while it was queued has been skipped.
C3_Witness ==
  \E op \in Ops :
    cancel_phase[op] = "queued" /\ outcome[op] = "skipped" /\ attempts[op] = 0

\* C4: a worker whose load was cancelled during construction leaves the
\* session as it found it: handle, rate, timing fields and the pending-load
\* token (also one registered by a later activation) are the same after its
\* locked section as before.
C4_DiscardLeavesSession ==
  [][\A w \in Workers :
       (/\ wpc[w] \in {"lock", "locked"}
        /\ wpc'[w] # wpc[w]
        /\ IsCancelled(wdata[w].cancellable))
       => UNCHANGED <<recognizer, rate, current_operation,
                      last_processed_time, last_partial>>]_vars

\* C5: at most one load is live (created, not cancelled, not completed).
C5_OneLiveRequest == Cardinality(Live) <= 1

\* C6: a load request that is pushed and never cancelled gets exactly one
\* construction, which ends in success or failure: never two constructions
\* for one request, and under a fair worker never none.
C6_ExactlyOneAttempt ==
  /\ [](\A op \in Ops :
          /\ attempts[op] <= 1
          /\ outcome[op] \in {"success", "failed"} => attempts[op] = 1)
  /\ \A op \in 1..FairLoads :
        Pushed(op) ~> (outcome[op] \in {"success", "failed"}
                       \/ cancel_phase[op] # "none")

\* C6 witness: an uncancelled load completed after one construction.
C6_Witness ==
  \E op \in Ops :
    /\ cancel_phase[op] = "none"
    /\ outcome[op] \in {"success", "failed"}
    /\ attempts[op] = 1

\* C7: every load whose construction succeeds uncancelled installs a
\* recognizer exactly once, under the session lock and before async-done is
\* posted; whenever async-done is about to be posted the session is Ready.
C7_DoneImpliesReady ==
  /\ \A op \in Ops : outcome[op] = "success" => installs[op] = 1
  /\ \A w \in Workers : wpc[w] = "recognizer_new" => RecMut = Worker(w)
  /\ \A op \in Ops : Completed(op) => installs[op] = 1
  /\ \A w \in Workers : wpc[w] = "post_done" => recognizer # NULL /\ rate > 0

\* C8: when construction returns no model for an uncancelled load, the
\* worker leaves its locked section with the session Idle (no recognizer, no
\* pending-load token), reports the error and never posts async-done.
C8_FailureEndsIdle ==
  /\ [](\A op \in Ops : outcome[op] = "failed" => ~Completed(op))
  /\ [](\A w \in Workers : wpc[w] = "abort_state" => Failed(wdata[w].op))
  /\ [][\A w \in Workers :
          (wpc[w] = "locked" /\ wpc'[w] = "post_error")
          => (recognizer' = NULL /\ current_operation' = NULL)]_vars

\* C9: an activation without a model path fails at once: FAILURE is
\* returned, the RESOURCE/NOT_FOUND error is posted, nothing is pushed, no
\* token is created, no async-start is posted, the session is unchanged.
C9_NoPathFailsAtOnce ==
  [][(apc = "check_model_path" /\ model_path = PathNull /\ apc' # apc)
     => (/\ apc' = "idle"
         /\ aret' = "FAILURE"
         /\ gst_return' = "FAILURE"
         /\ <<"error", NULL>> \in bus'
         /\ bus' \subseteq bus \cup {<<"error", NULL>>}
         /\ next_op' = next_op
         /\ UNCHANGED pool
         /\ UNCHANGED session)]_vars

\* C9 witness: an activation has just failed for want of a model path.
C9_Witness ==
  /\ model_path = PathNull
  /\ aret = "FAILURE"
  /\ gst_return = "FAILURE"
  /\ <<"error", NULL>> \in bus
  /\ next_op > 0

\* C10: async-done is never posted for a load whose async-start has not
\* been posted, and a load whose async-start was posted and that no
\* deactivation has undone never ends without async-done or an error report.
C10_StartDoneBracket ==
  /\ \A op \in Ops : Completed(op) => Started(op)
  /\ \A op \in Ops :
        (Started(op) /\ op \notin undone)
        => outcome[op] \notin {"skipped", "discarded"}

\* C17: with denoise active from an empty accumulator, after the chunks fed
\* so far the transform has run once per complete frame of input, frame i
\* being the input samples 480(i-1)+1 .. 480i in order, and the accumulator
\* holds exactly the samples after the last complete frame: it is empty
\* when the total is a multiple of 480.
C17_FramesExact ==
  DenoiseActive =>
    /\ Len(frames) = fed \div RNNOISE_FRAME_SIZE
    /\ \A i \in 1..Len(frames) :
          frames[i] = [j \in 1..RNNOISE_FRAME_SIZE |->
                         RNNOISE_FRAME_SIZE * (i - 1) + j]
    /\ denoise_input_buffer =
          [j \in 1..(fed % RNNOISE_FRAME_SIZE) |->
             RNNOISE_FRAME_SIZE * Len(frames) + j]
    /\ (fed % RNNOISE_FRAME_SIZE = 0 => denoise_input_buffer = <<>>)

\* C17 witness: chunks that are not frame-aligned (1 and 479 samples among
\* them) total two frames; both frames were processed.
C17_Witness ==
  /\ DenoiseActive
  /\ fed = 2 * RNNOISE_FRAME_SIZE
  /\ n_chunks = MaxChunks
  /\ Len(frames) = 2
  /\ denoise_input_buffer = <<>>

\* C18: a drain for a buffer of m samples writes the first min(m, available)
\* clean samples of the output buffer in order, then silence; the output
\* buffer keeps exactly the samples not drained, in order; and no clean
\* sample is written back twice.
C18_DrainFifo ==
  [][dpc = "drain" /\ dpc' = "idle" =>
       LET m == Len(dbuf)
           available == Len(denoise_output_buffer)
           n == Min(m, available)
       IN /\ Len(dbuf') = m
          /\ \A i \in 1..n : dbuf'[i] = <<"s16", denoise_output_buffer[i][2]>>
          /\ \A i \in (n + 1)..m : dbuf'[i] = Silence
          /\ denoise_output_buffer' =
                SubSeq(denoise_output_buffer, n + 1, available)
          /\ \A i \in 1..(Len(delivered') - 1) :
                delivered'[i] < delivered'[i + 1]]_vars

\* C18 witness: a drain that had fewer clean samples than the buffer asked
\* for (silence was written), after an earlier drain left a remainder.
C18_Witness ==
  /\ dpc = "idle"
  /\ Len(delivered) > 0
  /\ Len(dbuf) > 0 /\ dbuf[Len(dbuf)] = Silence /\ dbuf[1] # Silence
  /\ n_chunks >= 2

\* The streaming thread is inside gst_vosk_chain.
InChain == spc \in {"chain_lock", "chain_handle", "chain_push"}

\* The buffers pushed on the source pad, in order.
PushedBuffers == SelectSeq(downstream, LAMBDA e : e[1] = "buffer")

\* C11: every buffer given to the chain function is pushed downstream exactly
\* once and in arrival order, whatever happened to its recognition: once the
\* calls for buffers 1..k have returned, the buffers pushed are 1, ..., k.
C11_PushedOnceInOrder ==
  LET k == IF InChain THEN n_bufs - 1 ELSE n_bufs
  IN /\ Len(PushedBuffers) = k
     /\ \A i \in 1..k : PushedBuffers[i] = <<"buffer", i>>

\* The last buffer hit an ingest error after the ones before it were pushed,
\* and no query was ever made.
C11_Witness ==
  /\ spc = "chain_push"
  /\ cbuf.id = MaxBufs
  /\ cbuf.result = -1
  /\ Len(PushedBuffers) = MaxBufs - 1
  /\ queried = <<>>

\* The queries made for the buffer being chained.
QueriesOfBuffer == SelectSeq(queried, LAMBDA q : q.src = cbuf.id)

\* What a final boundary leaves behind: one query for the buffer, of the
\* final result and not of a partial one, its answer emitted unless it is an
\* empty one, last_partial at the buffer's timestamp, no previous partial.
BoundaryHandled ==
  /\ Len(QueriesOfBuffer) = 1
  /\ QueriesOfBuffer[1].kind = "result"
  /\ ~FinalIsEmpty(QueriesOfBuffer[1].json) => QueriesOfBuffer[1].emitted
  /\ last_partial = cbuf.pts
  /\ prev_partial = NoPartial

\* C13 as stated: whenever accept_waveform returned 1 for a buffer, the final
\* result was queried for it unconditionally, emitted if not empty, no partial
\* was queried, last_partial is its timestamp and prev_partial is empty.
C13_BoundaryAlwaysQueried ==
  (spc = "chain_push" /\ cbuf.result = 1) => BoundaryHandled

\* C13: whenever accept_waveform returned 1 for a buffer that the catch-up
\* rule did not skip, the final result was queried once for it, emitted if
\* not empty, no partial was queried, last_partial is its timestamp and
\* prev_partial is empty; a buffer the catch-up rule skipped got no query.
C13_BoundaryQueriedUnlessSkipped ==
  spc = "chain_push" =>
    /\ (cbuf.result = 1 /\ ~cbuf.skipped) => BoundaryHandled
    /\ cbuf.skipped => QueriesOfBuffer = <<>>

\* A partial result was emitted for the first buffer, and the second buffer
\* brought a final boundary whose result was emitted.
C13_Witness ==
  /\ spc = "chain_push"
  /\ cbuf.result = 1 /\ ~cbuf.skipped
  /\ Len(queried) = 2
  /\ queried[1].kind = "partial" /\ queried[1].emitted
  /\ queried[2].kind = "result" /\ queried[2].emitted
  /\ queried[2].src = cbuf.id

\* Queries i < j are partial-result queries with nothing but partial-result
\* queries that emitted nothing between them.
ConsecutivePartials(i, j) ==
  /\ queried[i].kind = "partial" /\ queried[j].kind = "partial"
  /\ \A k \in (i + 1)..(j - 1) :
       queried[k].kind = "partial" /\ ~queried[k].emitted

\* C14: with a partial interval I >= 0, two partial-result queries with no
\* final boundary between them are made on buffers whose timestamps differ
\* by more than I, and two consecutive partial emissions never carry the
\* same text.
C14_PartialCadence ==
  partial_time_interval >= 0 =>
    \A i \in 1..Len(queried) : \A j \in (i + 1)..Len(queried) :
      ConsecutivePartials(i, j) =>
        /\ queried[j].pts - queried[i].pts > partial_time_interval
        /\ (queried[i].emitted /\ queried[j].emitted)
             => queried[i].json # queried[j].json

\* With I = 200 ms two partial results were emitted, for two buffers.
C14_Witness ==
  /\ partial_time_interval = 200
  /\ Len(queried) = 2
  /\ ConsecutivePartials(1, 2)
  /\ queried[1].emitted /\ queried[2].emitted
  /\ queried[1].src # queried[2].src

\* C16: with partial results disabled (interval < 0) no partial-result query
\* is ever made; the only queries are the ones a final boundary causes, so
\* buffers without a final boundary emit nothing.
C16_NoPartialWhenDisabled ==
  partial_time_interval < 0 =>
    \A i \in 1..Len(queried) :
      queried[i].kind = "result" /\ queried[i].src >= 1

\* With the interval at -1 every buffer of the run was taken by the engine,
\* which holds text, and nothing was queried.
C16_Witness ==
  /\ partial_time_interval < 0
  /\ recognizer # NULL
  /\ spc = "idle" /\ n_bufs = MaxBufs
  /\ last_processed_time = cbuf.pts
  /\ decode # ""
  /\ queried = <<>>

\* The session is Ready: a recognizer is installed and the element is in
\* PAUSED.
Ready == recognizer # NULL /\ gst_state = "PAUSED"

\* C15: a flush while Ready changes only the engine's decode state: across
\* each step of the flush handler the recognizer handle, the rate, the
\* pending-load token and the timing and partial fields stay what they are,
\* no load request is created and no result is queried or emitted.
C15_FlushKeepsSession ==
  [][(Ready /\ fpc' # fpc)
       => UNCHANGED <<recognizer, rate, current_operation,
                      last_processed_time, last_partial, prev_partial,
                      thread_pool, next_op, bus, queried>>]_vars

\* A buffer left text in the engine, then a flush ran and the text is gone;
\* the recognizer is still there.
C15_Witness ==
  /\ Ready
  /\ n_bufs = 1 /\ spc = "idle" /\ n_eos = 0 /\ n_reads = 0
  /\ \A i \in 1..Len(queried) : queried[i].kind = "partial"
  /\ downstream = <<<<"buffer", 1>>, <<"event", "flush-start">>>>
  /\ n_flush = 1 /\ fpc = "idle"
  /\ decode = ""

\* C20: while the streaming thread is inside the locked section of the chain
\* function, no other thread changes or frees the recognizer or the
\* session's fields, and none takes the two locks the chain call holds.
C20_NoMutationMidIngest ==
  [][(spc = "chain_handle" /\ spc' = "chain_handle")
       => UNCHANGED <<recognizer, rate, decode, prev_partial, last_partial,
                      last_processed_time, RecMut, StreamLock>>]_vars

\* A buffer is inside the locked section while a deactivation waits for the
\* streaming thread and a flush and a property read could come.
C20_Witness ==
  /\ spc = "chain_handle"
  /\ recognizer # NULL
  /\ apc = "parent" /\ atrans = "PAUSED_TO_READY"
  /\ fpc = "idle" /\ n_flush < MaxFlush
  /\ ppc = "idle" /\ n_reads < MaxReads

\* C19: every access to the recognizer, the token, the previous partial and
\* the timing fields from the chain path, the end-of-stream path, the result
\* properties and the flush is made by the holder of the session lock, so no
\* two threads are inside such an access at once.
C19_AccessesUnderLock ==
  /\ spc \in {"chain_handle", "eos_final"} => RecMut = Stream
  /\ ppc # "idle" => RecMut = Prop
  /\ fpc = "locked" => RecMut = Flush

\* C12: when the end-of-stream handler queries the final result on an
\* installed recognizer that holds text, exactly one final result is
\* emitted, and the event has not been forwarded downstream yet; the timing
\* fields play no part.
C12_EosEmitsOneFinal ==
  [][(spc = "eos_final" /\ spc' = "eos_forward"
      /\ recognizer # NULL /\ decode # "")
       => /\ Len(queried') = Len(queried) + 1
          /\ queried'[Len(queried')].kind = "final"
          /\ queried'[Len(queried')].src = SrcEos
          /\ queried'[Len(queried')].emitted
          /\ downstream' = downstream]_vars

\* C25: whenever denoise is initialized the accumulator holds less than one
\* frame between calls and the output queue holds between 0 and two frames
\* (960 samples), whatever the sizes of the chunks fed.
C25_DenoiseBuffersBounded ==
  denoise_initialized =>
    /\ Len(denoise_input_buffer) < RNNOISE_FRAME_SIZE
    /\ Len(denoise_output_buffer) <= denoise_buffer_size

\* The output queue is full and the accumulator holds a part of a frame.
C25_Witness ==
  /\ DenoiseActive
  /\ Len(denoise_output_buffer) = denoise_buffer_size
  /\ Len(denoise_input_buffer) > 0

\* C26: across one accumulation the output queue keeps what it held, in
\* place; the clean frames that fit are appended in order and the newest
\* ones, which do not fit, are dropped; the rest of the chunk is processed
\* all the same.
C26_OverflowDropsNewest ==
  [][(dpc = "idle" /\ dpc' = "drain") =>
       LET old == denoise_output_buffer
           new == denoise_output_buffer'
           made == Len(frames') - Len(frames)
           room == (denoise_buffer_size - Len(old)) \div RNNOISE_FRAME_SIZE
           fit == Min(made, room)
       IN /\ Len(new) = Len(old) + fit * RNNOISE_FRAME_SIZE
          /\ SubSeq(new, 1, Len(old)) = old
          /\ \A k \in 1..fit :
               SubSeq(new, Len(old) + (k - 1) * RNNOISE_FRAME_SIZE + 1,
                      Len(old) + k * RNNOISE_FRAME_SIZE)
                 = Clean(frames'[Len(frames) + k])
          /\ made = (Len(denoise_input_buffer) + (fed' - fed))
                      \div RNNOISE_FRAME_SIZE
          /\ Len(denoise_input_buffer') =
               (Len(denoise_input_buffer) + (fed' - fed))
                 % RNNOISE_FRAME_SIZE]_vars

\* A chunk brought more frames than the queue had room for: frames were
\* processed and dropped, the queue is full.
C26_Witness ==
  /\ dpc = "drain"
  /\ Len(denoise_output_buffer) = denoise_buffer_size
  /\ Len(frames) * RNNOISE_FRAME_SIZE
       > Len(delivered) + Len(denoise_output_buffer)

\* C21: a buffer that the engine took and whose lag is over 500 ms gets a
\* result query only if more than 200 ms passed since the last processed
\* buffer; with 200 ms or less nothing is queried and last_processed_time is
\* left as it was, the buffer having been fed all the same.  With a lag of at
\* most 500 ms, or more than 200 ms elapsed, the buffer is processed:
\* last_processed_time becomes its timestamp.
C21_CatchUpStrict ==
  [][\A r \in {0, 1}, late \in BOOLEAN, d \in Texts, alt \in BOOLEAN :
       (recognizer # NULL /\ Chain_Handle("ok", r, late, d, alt)) =>
         LET lpt0 == Baseline(last_processed_time, cbuf.pts)
             elapsed == cbuf.pts - lpt0
         IN IF late /\ elapsed <= CatchUpGap
              THEN /\ queried' = queried
                   /\ last_processed_time' = lpt0
                   /\ cbuf'.result = r
              ELSE /\ last_processed_time' = cbuf.pts
                   /\ cbuf'.result = r]_vars

\* The queries a step of the chain function added.
NewQueries == SubSeq(queried', Len(queried) + 1, Len(queried'))

\* The locked section of the chain function runs on the first buffer since
\* the reset.
FirstBufferStep ==
  /\ spc = "chain_handle" /\ spc' = "chain_push"
  /\ last_processed_time = GST_CLOCK_TIME_NONE

\* C22 as stated: the first buffer after a reset only sets
\* last_processed_time to its timestamp: it is not put to the catch-up test
\* and nothing is queried or emitted for it, whatever the engine returns.
C22_FirstBufferEmitsNothing ==
  [][FirstBufferStep =>
       /\ last_processed_time' = cbuf.pts
       /\ ~cbuf'.skipped
       /\ queried' = queried]_vars

\* C22: the first buffer after a reset sets last_processed_time to its
\* timestamp.  Without a recognizer nothing else happens.  With one it is
\* handled like any other buffer with nothing elapsed: the catch-up rule
\* skips it when it is late, and otherwise a final boundary is queried.
C22_FirstBufferIsBaseline ==
  [][FirstBufferStep =>
       /\ last_processed_time' = cbuf.pts
       /\ recognizer = NULL =>
            (queried' = queried /\ cbuf'.result = NotIngested)
       /\ cbuf'.skipped => queried' = queried
       /\ (cbuf'.result = 1 /\ ~cbuf'.skipped) =>
            (Len(NewQueries) = 1 /\ NewQueries[1].kind = "result")]_vars

\* The first buffer met a recognizer and a final boundary, and its result
\* was emitted.
C22_Witness ==
  /\ spc = "chain_push"
  /\ cbuf.id = 1 /\ cbuf.result = 1
  /\ last_processed_time = cbuf.pts
  /\ Len(queried) = 1 /\ queried[1].src = 1 /\ queried[1].emitted

\* C23: a flush clears the partial de-dup cache: when the last thing that
\* went downstream before a buffer is a flush, a non-empty partial result
\* queried for that buffer is emitted, also when it equals the last partial
\* emitted before the flush.
C23_FlushClearsCache ==
  [][(/\ spc = "chain_handle" /\ spc' = "chain_push"
      /\ Len(downstream) > 0
      /\ downstream[Len(downstream)] = <<"event", "flush-start">>
      /\ Len(NewQueries) = 1
      /\ NewQueries[1].kind = "partial"
      /\ ~PartialIsEmpty(NewQueries[1].json))
       => NewQueries[1].emitted]_vars

\* C29: whenever the chain function is not inside gst_vosk_handle_buffer,
\* no mapping of the buffer is outstanding: every return path has unmapped
\* what it mapped.
C29_AllUnmapped == ~cbuf.mapped

\* C24: a deactivation returns the session to the fresh idle state: when
\* gst_vosk_reset has run at the end of the state change there is no pending
\* token, no recognizer, no previous partial, no rate, and both timing
\* fields, last_processed_time and last_partial, are cleared.
C24_DeactivationClearsSession ==
  [][Deactivate_Reset =>
       /\ current_operation' = NULL
       /\ recognizer' = NULL
       /\ prev_partial' = NoPartial
       /\ rate' = 0
       /\ last_processed_time' \in {0, GST_CLOCK_TIME_NONE}
       /\ last_partial' \in {0, GST_CLOCK_TIME_NONE}]_vars

\* The loads that wait in the pool's queue or whose worker has not yet
\* reached its locked section.
QueuedOrRunning ==
  {thread_pool[i].op : i \in 1..Len(thread_pool)}
    \cup {wdata[w].op : w \in {v \in Workers : wpc[v] \in {"vosk_model_new", "lock"}}}

\* C27: while a load that was not cancelled is queued or running, the token
\* in vosk->current_operation is the token created for that load, so that a
\* deactivation can cancel it.
C27_PendingTokenIsTheLoads ==
  \A op \in QueuedOrRunning : ~IsCancelled(op) => current_operation = op

\* ------------------------------------------------- all the threads together
\* The chain function on one plain buffer, whether a recognizer is there or
\* not.
ChainPlain ==
  \/ Chain_Start(SyncBufs, 100)
  \/ Chain_Lock
  \/ Chain_Handle("ok", 0, FALSE, "a", FALSE)
  \/ Chain_Push

\* An end-of-stream event whose final result comes in the indented spelling.
EosPlain ==
  \/ \E r \in CapsRates : SetCaps(r)
  \/ Eos_Start
  \/ Eos_Cancel
  \/ \E txt \in Texts : Eos_Final(txt, FALSE)
  \/ Eos_Forward

\* gst_vosk_change_state with a model path set.
ChangeStateSteps ==
  \/ CheckModelPath_Locked
  \/ \E c \in Ops \cup {NULL} : CheckModelPath_Push(c)
  \/ CheckModelPath_PostStart
  \/ ParentChangeState
  \/ Deactivate_Cancel
  \/ Deactivate_Reset

\* The loader's one pool thread (max_threads), the state changes, the
\* streaming thread with buffers and end-of-stream, and the flushing thread,
\* from construction on.
NextLocks ==
  \/ WorkerStep(max_threads)
  \/ SetStatePaused(FairLoads)
  \/ SetStateReady
  \/ ChangeStateSteps
  \/ EosPlain
  \/ ChainPlain
  \/ Flush_Lock
  \/ Flush_Reset

SpecLocks == Init /\ [][NextLocks]_vars

\* A thread is inside the element's code.
Busy ==
  \/ apc # "idle"
  \/ spc # "idle"
  \/ fpc # "idle"
  \/ \E w \in Workers : wpc[w] # "idle"

\* The steps of the threads that are inside the element's code.
Progress ==
  \/ WorkerStep(max_threads)
  \/ ChangeStateSteps
  \/ Eos_Cancel
  \/ \E txt \in Texts : Eos_Final(txt, FALSE)
  \/ Eos_Forward
  \/ Chain_Lock
  \/ Chain_Handle("ok", 0, FALSE, "a", FALSE)
  \/ Chain_Push
  \/ Flush_Reset

\* C28: the locking protocol has no deadlock: in no reachable state are the
\* threads that are inside the element's code all waiting for a lock that
\* another of them holds; one of them can always take its next step.
C28_NoDeadlock == Busy => ENABLED Progress

\* The state change holds the state lock and waits for the stream lock; the
\* streaming thread holds the stream lock and waits for the session lock;
\* the worker holds the session lock and will ask for the state lock.
C28_Witness ==
  /\ apc = "parent" /\ atrans = "PAUSED_TO_READY" /\ StateLock = App
  /\ spc = "chain_lock" /\ StreamLock = Stream
  /\ RecMut = Worker(max_threads) /\ wpc[max_threads] = "recognizer_new"

====
